---- MODULE Spec2Model ----
(***************************************************************************)
(* Model of gplus/dao.go (gorm-plus): the CRUD dispatcher, the compile     *)
(* step buildCondition, the pagination scope and primary-key resolution.   *)
(* The Query builder's fluent methods live in a file that is not part of   *)
(* the sources at hand; they are modelled from the specification.          *)
(***************************************************************************)
EXTENDS Integers, Sequences, FiniteSets, TLC

\* ------------------------------------------------------------------ bounds
MaxRootTerms  == 1   \* fluent root comparisons per Query
MaxOps        == 2   \* dispatcher operations per behaviour
MaxRows       == 2   \* rows a data query returns
MaxFields     == 2   \* fields of the record type

\* ------------------------------------------------------- program constants
DefaultPageSize    == 10
DefaultPage        == 1
DefaultPrimaryName == "id"

\* ------------------------------------------------------------ Go int (64 bit)
\* A Go int is kept as 8 little-endian limbs of 8 bits, two's complement,
\* so that (page - 1) * pageSize wraps exactly as the compiled code does.
Base   == 256
NLimbs == 8
Limbs  == 1..NLimbs

I64(n) == [i \in Limbs |-> IF i <= 4 THEN (n \div (Base ^ (i - 1))) % Base
                           ELSE IF n < 0 THEN Base - 1 ELSE 0]

IsNeg(x)  == x[NLimbs] >= Base \div 2
LeZero(x) == IsNeg(x) \/ x = I64(0)

RECURSIVE AddCarry(_, _, _)
AddCarry(a, b, i) ==
    IF i = 1 THEN 0 ELSE (a[i - 1] + b[i - 1] + AddCarry(a, b, i - 1)) \div Base

AddLimbs(x, y) == [i \in Limbs |-> (x[i] + y[i] + AddCarry(x, y, i)) % Base]

\* the sum as the machine computes it (each operand is evaluated once)
Add64(a, b) == CHOOSE r \in {AddLimbs(x, y) : x \in {a}, y \in {b}} : TRUE

LimbAt(a, i) == IF i \in Limbs THEN a[i] ELSE 0

RECURSIVE ColSum(_, _, _, _)
\* sum over i in 1..n of a[i] * b[k + 1 - i]
ColSum(a, b, k, n) ==
    IF n = 0 THEN 0 ELSE LimbAt(a, n) * LimbAt(b, k + 1 - n) + ColSum(a, b, k, n - 1)

RECURSIVE MulCarry(_, _, _)
MulCarry(a, b, k) ==
    IF k = 1 THEN 0 ELSE (ColSum(a, b, k - 1, NLimbs) + MulCarry(a, b, k - 1)) \div Base

\* limbs 1..n of the product of two limb sequences
MulLimbs(x, y, n) == [k \in 1..n |-> (ColSum(x, y, k, NLimbs) + MulCarry(x, y, k)) % Base]

\* the product as the machine computes it: the low 64 bits (each operand is
\* evaluated once)
Mul64(a, b) == CHOOSE r \in {MulLimbs(x, y, NLimbs) : x \in {a}, y \in {b}} : TRUE

\* the mathematical product of two non-negative values, 16 limbs wide
MulWide(a, b) == CHOOSE r \in {MulLimbs(x, y, 2 * NLimbs) : x \in {a}, y \in {b}} : TRUE

\* for non-negative a, b: the mathematical product fits a non-negative int64
ProductFits(a, b) ==
    \E w \in {MulWide(a, b)} :
        /\ \A k \in (NLimbs + 1)..(2 * NLimbs) : w[k] = 0
        /\ w[NLimbs] < Base \div 2

\* 2^62 + 1, a page number whose offset overflows with size 2
HugePage == [i \in Limbs |-> IF i = 1 THEN 1 ELSE IF i = NLimbs THEN 64 ELSE 0]

\* ------------------------------------------------------------------ values
Cols  == {"a", "b"}            \* physical column names used by fluent calls
Vals  == {"v1", "v2"}          \* argument values
Keys  == {"Name", "Age"}       \* logical field names used as equality-map keys
Rows  == {"r1", "r2"}          \* rows the executor can return
NoVal == "-"

\* ---------------------------------------------------------- predicate text
\* A strings.Builder is a sequence of tokens.  A placeholder token remembers
\* the value that was appended together with it (v); the text handed to the
\* executor is the sequence of the s fields.
Lit(s) == [s |-> s, v |-> NoVal]
Ph(v)  == [s |-> "?", v |-> v]

Text(toks) == [i \in DOMAIN toks |-> toks[i].s]

RECURSIVE PlaceholderVals(_)
\* the values attached to the placeholders of a text, left to right
PlaceholderVals(toks) ==
    IF toks = <<>> THEN <<>>
    ELSE IF Head(toks).s = "?" THEN <<Head(toks).v>> \o PlaceholderVals(Tail(toks))
    ELSE PlaceholderVals(Tail(toks))

RECURSIVE CountTerms(_)
\* number of comparison fragments in a text
CountTerms(toks) ==
    IF toks = <<>> THEN 0
    ELSE (IF Head(toks).s \in {" = ", " IS NULL "} THEN 1 ELSE 0) + CountTerms(Tail(toks))

\* ------------------------------------------------------------------- Query
NewQuery ==
    [QueryBuilder      |-> <<>>, QueryArgs      |-> <<>>,
     AndBracketBuilder |-> <<>>, AndBracketArgs |-> <<>>,
     OrBracketBuilder  |-> <<>>, OrBracketArgs  |-> <<>>,
     ConditionMap      |-> {},
     OrderBuilder      |-> <<>>, GroupBuilder   |-> <<>>,
     HavingBuilder     |-> <<>>, HavingArgs     |-> <<>>,
     SelectColumns     |-> <<>>, DistinctColumns |-> <<>>,
     UpdateMap         |-> {}]

\* physical column of a logical field; a string is already a column name
getColumnName(k) ==
    CASE k = "Name" -> "name"
      [] k = "Age"  -> "age"
      [] OTHER      -> k

\* one comparison fragment "<column> = ? " and its connector
EqFragment(col, v) == <<Lit(col), Lit(" = "), Ph(v), Lit(" ")>>

Connector(toks, word) == IF toks = <<>> THEN <<>> ELSE <<Lit(word)>>

\* q.Eq(column, val): fragment and argument are appended together
Eq(qq, col, v) ==
    [qq EXCEPT !.QueryBuilder = @ \o Connector(@, "AND ") \o EqFragment(getColumnName(col), v),
               !.QueryArgs    = Append(@, v)]

\* q.In(column, vals): one placeholder bound to the whole list
In(qq, col, v) ==
    [qq EXCEPT !.QueryBuilder = @ \o Connector(@, "AND ")
                                  \o <<Lit(getColumnName(col)), Lit(" IN "), Ph(v), Lit(" ")>>,
               !.QueryArgs    = Append(@, v)]

\* q.IsNull(column): a fragment without placeholder and without argument
IsNull(qq, col) ==
    [qq EXCEPT !.QueryBuilder = @ \o Connector(@, "AND ")
                                  \o <<Lit(getColumnName(col)), Lit(" IS NULL "), Lit(" ")>>]

RECURSIVE GroupText(_, _)
\* the terms of a bracket group joined by its inner connector
GroupText(terms, word) ==
    IF terms = <<>> THEN <<>>
    ELSE EqFragment(getColumnName(Head(terms)[1]), Head(terms)[2])
         \o (IF Tail(terms) = <<>> THEN <<>> ELSE <<Lit(word)>>)
         \o GroupText(Tail(terms), word)

GroupArgs(terms) == [i \in DOMAIN terms |-> terms[i][2]]

\* q.And(group): the parenthesized sub-clause with its AND connector
AndBracket(qq, terms) ==
    [qq EXCEPT !.AndBracketBuilder = <<Lit("AND "), Lit("(")>> \o GroupText(terms, "AND ")
                                     \o <<Lit(")"), Lit(" ")>>,
               !.AndBracketArgs    = GroupArgs(terms)]

\* q.Or(group): the parenthesized sub-clause with its OR connector
OrBracket(qq, terms) ==
    [qq EXCEPT !.OrBracketBuilder = <<Lit("OR "), Lit("(")>> \o GroupText(terms, "OR ")
                                    \o <<Lit(")"), Lit(" ")>>,
               !.OrBracketArgs    = GroupArgs(terms)]

\* ---------------------------------------------------------------- executor
\* A Where call on the statement: either a predicate text with arguments,
\* or a column -> value map (cmap).
ExprClause(toks, args) == [text |-> toks, args |-> args, cmap |-> {}]
MapClause(m)           == [text |-> <<>>, args |-> <<>>, cmap |-> m]

\* db.Model(new(T)): a statement without conditions
NewStmt ==
    [wheres |-> <<>>, distinct |-> <<>>, select |-> <<>>,
     order |-> <<>>, group |-> <<>>, having |-> <<>>, havingArgs |-> <<>>,
     paged |-> FALSE, offset |-> I64(0), limit |-> I64(0)]

Where(stmt, clause) == [stmt EXCEPT !.wheres = Append(@, clause)]

\* ---------------------------------------------------------- buildCondition
\* buildCondition writes the bracket groups into the Query it compiles; the
\* result is the pair of the Query after the call and the statement built.
\* variant: the OR-group arguments are appended before the AND-group arguments
CompiledQueryArgsSwapped(qq) ==
    IF Len(qq.QueryBuilder) > 0
    THEN [qq EXCEPT !.QueryArgs    = @ \o qq.OrBracketArgs \o qq.AndBracketArgs,
                    !.QueryBuilder = @ \o qq.AndBracketBuilder \o qq.OrBracketBuilder]
    ELSE qq

\* variant: the OR-group is written before the AND-group
CompiledQueryOrFirst(qq) ==
    IF Len(qq.QueryBuilder) > 0
    THEN [qq EXCEPT !.QueryArgs    = @ \o qq.OrBracketArgs \o qq.AndBracketArgs,
                    !.QueryBuilder = @ \o qq.OrBracketBuilder \o qq.AndBracketBuilder]
    ELSE qq

CompiledQuery(qq) ==
    IF Len(qq.QueryBuilder) > 0
    THEN [qq EXCEPT
            !.QueryArgs    = @ \o (IF Len(qq.AndBracketBuilder) > 0 THEN qq.AndBracketArgs ELSE <<>>)
                               \o (IF Len(qq.OrBracketBuilder) > 0 THEN qq.OrBracketArgs ELSE <<>>),
            !.QueryBuilder = @ \o (IF Len(qq.AndBracketBuilder) > 0 THEN qq.AndBracketBuilder ELSE <<>>)
                               \o (IF Len(qq.OrBracketBuilder) > 0 THEN qq.OrBracketBuilder ELSE <<>>)]
    ELSE qq

ResolvedMap(m) == {<<getColumnName(e[1]), e[2]>> : e \in m}

\* the statement buildCondition returns for the Query qq it was given, q2
\* being that Query after the bracket groups were written into it
CompiledStmt(qq, q2) ==
    [wheres     |-> (IF Len(qq.QueryBuilder) > 0
                     THEN <<ExprClause(q2.QueryBuilder, q2.QueryArgs)>> ELSE <<>>)
                    \o (IF Cardinality(qq.ConditionMap) > 0
                        THEN <<MapClause(ResolvedMap(qq.ConditionMap))>> ELSE <<>>),
     distinct   |-> IF Len(qq.DistinctColumns) > 0 THEN qq.DistinctColumns ELSE <<>>,
     select     |-> IF Len(qq.SelectColumns) > 0 THEN qq.SelectColumns ELSE <<>>,
     order      |-> IF Len(qq.OrderBuilder) > 0 THEN qq.OrderBuilder ELSE <<>>,
     group      |-> IF Len(qq.GroupBuilder) > 0 THEN qq.GroupBuilder ELSE <<>>,
     having     |-> IF Len(qq.HavingBuilder) > 0 THEN qq.HavingBuilder ELSE <<>>,
     havingArgs |-> IF Len(qq.HavingBuilder) > 0 THEN qq.HavingArgs ELSE <<>>,
     paged      |-> FALSE, offset |-> I64(0), limit |-> I64(0)]

\* buildCondition(q): the Query after the call and the statement built
buildCondition(qq) ==
    [q |-> CompiledQuery(qq), stmt |-> CompiledStmt(qq, CompiledQuery(qq))]

\* ------------------------------------------------------------- record type
\* A field of the record type T: its identifier and its gorm tag, the tag
\* being the list of its ';'-separated items.
FieldNames == {"ID", "UserName"}
FieldTags  == { <<>>,
                <<"primaryKey">>,
                <<"primary_key", "column:uid">>,
                <<"column:uid", "primaryKey">>,
                <<"primaryKey", "column:">>,
                <<"primaryKey:false", "column:uid">>,
                <<"column:login">> }

\* schema.ParseTagSetting on one item: its upper-cased key and its value
TagKey(item) ==
    CASE item \in {"primaryKey", "primaryKey:false"} -> "PRIMARYKEY"
      [] item = "primary_key"                        -> "PRIMARY_KEY"
      [] OTHER                                       -> "COLUMN"

TagValue(item) ==
    CASE item = "primaryKey"       -> "PRIMARYKEY"
      [] item = "primaryKey:false" -> "false"
      [] item = "primary_key"      -> "PRIMARY_KEY"
      [] item = "column:uid"       -> "uid"
      [] item = "column:login"     -> "login"
      [] OTHER                     -> ""

\* tagSetting[key]: the value of the last item with that key, "" if none
RECURSIVE TagSetting(_, _)
TagSetting(tag, key) ==
    IF tag = <<>> THEN ""
    ELSE IF TagKey(tag[Len(tag)]) = key THEN TagValue(tag[Len(tag)])
    ELSE TagSetting(SubSeq(tag, 1, Len(tag) - 1), key)

HasSetting(tag, key) == \E i \in DOMAIN tag : TagKey(tag[i]) = key

\* utils.CheckTruth: some value is set and is not "false"
CheckTruth(v1, v2) == (v1 # "" /\ v1 # "false") \/ (v2 # "" /\ v2 # "false")

\* schema.NamingStrategy{}.ColumnName("", name) for the identifiers in use
ColumnName(name) ==
    CASE name = "ID"       -> "id"
      [] name = "UserName" -> "user_name"
      [] OTHER             -> name

IsPrimaryKey(field) ==
    CheckTruth(TagSetting(field.tag, "PRIMARYKEY"), TagSetting(field.tag, "PRIMARY_KEY"))

FieldColumn(field) ==
    IF HasSetting(field.tag, "COLUMN") THEN TagSetting(field.tag, "COLUMN")
    ELSE ColumnName(field.name)

RECURSIVE PkScanLastWins(_, _)
\* variant: the loop does not stop at the first marked field
PkScanLastWins(fields, i) ==
    IF i > Len(fields) THEN ""
    ELSE LET later == PkScanLastWins(fields, i + 1)
         IN  IF later # "" THEN later
             ELSE IF IsPrimaryKey(fields[i]) THEN FieldColumn(fields[i])
             ELSE ""

RECURSIVE PkScan(_, _)
\* the loop of getPkColumnName from field i on: columnName at loop exit
PkScan(fields, i) ==
    IF i > Len(fields) THEN ""
    ELSE IF IsPrimaryKey(fields[i]) THEN FieldColumn(fields[i])
    ELSE PkScan(fields, i + 1)

getPkColumnName(fields) ==
    LET columnName == PkScan(fields, 1)
    IN  IF columnName = "" THEN DefaultPrimaryName ELSE columnName

\* ---------------------------------------------------------------- paginate
\* variant: a size of zero or less is not replaced by the default
paginateNoSizeDefault(p, stmt) ==
    LET pg     == IF LeZero(p.Current) THEN I64(DefaultPage) ELSE p.Current
        offset == Mul64(Add64(pg, I64(-1)), p.Size)
    IN  [stmt EXCEPT !.paged = TRUE, !.offset = offset, !.limit = p.Size]

\* the scope returned by paginate(p), applied to a statement
paginate(p, stmt) ==
    LET pg       == IF LeZero(p.Current) THEN I64(DefaultPage) ELSE p.Current
        pageSize == IF LeZero(p.Size) THEN I64(DefaultPageSize) ELSE p.Size
        offset   == Mul64(Add64(pg, I64(-1)), pageSize)
    IN  [stmt EXCEPT !.paged = TRUE, !.offset = offset, !.limit = pageSize]

NewPage(current, size) ==
    [Current |-> current, Size |-> size, Total |-> 0, Records |-> <<>>]

\* ------------------------------------------------------------------- state
VARIABLES
    q,           \* the Query the caller builds and passes to the dispatcher
    page,        \* the Page the caller passes to the page operations
    pageKind,    \* element type of the Page: "T", "R" or "Map"
    entityType,  \* the fields of the record type T, in declaration order
    perIterVar,  \* the build gives each loop iteration its own variable
    db,          \* what the executor will answer: errors, count, rows
    log,         \* the statements the last operation handed to the executor
    ret,         \* what the last operation returned
    lastOp,      \* the last dispatcher operation
    nOps         \* dispatcher operations so far

vars == <<q, page, pageKind, entityType, perIterVar, db, log, ret, lastOp, nOps>>

NoError           == "nil"
ErrExec           == "ErrExec"
ErrRecordNotFound == "ErrRecordNotFound"

RECURSIVE SeqsUpTo(_, _)
SeqsUpTo(S, n) ==
    IF n = 0 THEN {<<>>}
    ELSE SeqsUpTo(S, n - 1) \cup {Append(t, x) : t \in SeqsUpTo(S, n - 1), x \in S}

\* the rows a data query returns are the first rows of the table
Table == [i \in 1..MaxRows |-> IF i % 2 = 1 THEN "r1" ELSE "r2"]

Totals == {0, 3}

Envs == [countErr : BOOLEAN, dataErr : BOOLEAN, total : Totals,
         rows : {SubSeq(Table, 1, n) : n \in 0..MaxRows}]

DefaultEnv    == [countErr |-> FALSE, dataErr |-> FALSE, total |-> 3, rows |-> <<"r1">>]
DefaultEntity == <<[name |-> "ID", tag |-> <<"primaryKey">>]>>

NoRet == [err |-> NoError, rowsAffected |-> 0, exists |-> FALSE, count |-> 0,
          results |-> <<>>]

\* ---------------------------------------------------------- executor calls
\* a statement handed to the executor: the call that ran it, the Query the
\* compile step was given, the statement and the rows that came back
Entry(op, given, stmt, out) ==
    [op |-> op, given |-> given, stmt |-> stmt, updates |-> {}, out |-> out]

\* resultDb.Count(&count)
Count(env) ==
    [count |-> IF env.countErr THEN 0 ELSE env.total,
     err   |-> IF env.countErr THEN ErrExec ELSE NoError]

\* resultDb.Find(&results) and resultDb.Scan(&results)
Find(env) ==
    [rows |-> IF env.dataErr THEN <<>> ELSE env.rows,
     err  |-> IF env.dataErr THEN ErrExec ELSE NoError]

\* resultDb.First(&entity): no row is reported as ErrRecordNotFound
First(env) ==
    [rows |-> IF env.dataErr \/ env.rows = <<>> THEN <<>> ELSE <<Head(env.rows)>>,
     err  |-> IF env.dataErr THEN ErrExec
              ELSE IF env.rows = <<>> THEN ErrRecordNotFound ELSE NoError]

\* Delete(&entity) and Updates(...): the rows of env are the rows affected
Write(env) ==
    [rowsAffected |-> IF env.dataErr THEN 0 ELSE Len(env.rows),
     err          |-> IF env.dataErr THEN ErrExec ELSE NoError]

Done(op) == /\ lastOp' = op
            /\ nOps' = nOps + 1
            /\ UNCHANGED <<pageKind, entityType, perIterVar, db>>

CanRun == nOps < MaxOps

\* ------------------------------------------------- dispatcher, as functions
\* Each operation maps the Query (and Page) it is given and the executor's
\* answers to the Query (and Page) after the call, the statements issued and
\* the returned values.
Result(qq, p, lg, r) == [q |-> qq, page |-> p, log |-> lg, ret |-> r]

\* b: what buildCondition returned, c: what Count returned
CountResult(qq, p, b, c) ==
    Result(b.q, p, <<Entry("Count", qq, b.stmt, <<>>)>>,
           [NoRet EXCEPT !.err = c.err, !.count = c.count])

SelectCountOp(qq, p, env) == CountResult(qq, p, buildCondition(qq), Count(env))

\* b: what buildCondition returned, f: what First, Find or Scan returned
RowsResult(qq, p, b, f, call) ==
    Result(b.q, p, <<Entry(call, qq, b.stmt, f.rows)>>,
           [NoRet EXCEPT !.err = f.err, !.rowsAffected = Len(f.rows), !.results = f.rows])

SelectOneOp(qq, p, env) == RowsResult(qq, p, buildCondition(qq), First(env), "First")

ExistsResult(o) == [o EXCEPT !.ret.exists = (o.ret.rowsAffected > 0), !.ret.results = <<>>]

ExistsOp(qq, p, env) == ExistsResult(SelectOneOp(qq, p, env))

\* SelectList, SelectListByMap, SelectListMaps (Find) and SelectListModel (Scan)
SelectListOp(qq, p, env, call) == RowsResult(qq, p, buildCondition(qq), Find(env), call)

\* the data query of a page operation: c is what SelectCount returned, p1 the
\* Page with its Total set, b what the second buildCondition returned, f the
\* rows found, records the Records to store
PageData(c, p1, b, f, call, records) ==
    Result(b.q, [p1 EXCEPT !.Records = records],
           c.log \o <<Entry(call, c.q, paginate(p1, b.stmt), f.rows)>>,
           [NoRet EXCEPT !.err = f.err, !.rowsAffected = Len(f.rows)])

\* variant: the data query runs whatever the count query returned
PageAlways(c, p, env, call) ==
    PageData(c, [p EXCEPT !.Total = c.ret.count], buildCondition(c.q), Find(env), call,
             Find(env).rows)

SelectPageOpNoShortCircuit(qq, p, env, call) ==
    PageAlways(SelectCountOp(qq, p, env), p, env, call)

PageAfterCount(c, p, env, call) ==
    IF c.ret.err # NoError
    THEN Result(c.q, p, c.log, [NoRet EXCEPT !.err = c.ret.err])
    ELSE PageData(c, [p EXCEPT !.Total = c.ret.count], buildCondition(c.q), Find(env), call,
                  Find(env).rows)

\* SelectPage (Find) and SelectPageModel (Scan)
SelectPageOp(qq, p, env, call) == PageAfterCount(SelectCountOp(qq, p, env), p, env, call)

\* what the loop "for _, m := range results { append(Records, &m) }" adds:
\* with one variable m for the whole loop every pointer sees the last row
AppendedPointers(results, ownVar) ==
    IF ownVar THEN results
    ELSE [i \in DOMAIN results |-> results[Len(results)]]

MapsAfterCount(c, p, env, ownVar) ==
    IF c.ret.err # NoError
    THEN Result(c.q, p, c.log, [NoRet EXCEPT !.err = c.ret.err])
    ELSE PageData(c, [p EXCEPT !.Total = c.ret.count], buildCondition(c.q), Find(env), "Find",
                  p.Records \o AppendedPointers(Find(env).rows, ownVar))

SelectPageMapsOp(qq, p, env, ownVar) ==
    MapsAfterCount(SelectCountOp(qq, p, env), p, env, ownVar)

\* db.Where(q1.QueryBuilder.String(), q1.QueryArgs...).Delete(&entity), qq being
\* the Query the operation was given and w what the executor returned
DeleteResult(qq, q1, p, w) ==
    Result(q1, p,
           <<Entry("Delete", qq, Where(NewStmt, ExprClause(q1.QueryBuilder, q1.QueryArgs)), <<>>)>>,
           [NoRet EXCEPT !.err = w.err, !.rowsAffected = w.rowsAffected])

DeleteOp(qq, p, env) == DeleteResult(qq, qq, p, Write(env))

RECURSIVE EqAll(_, _)
\* q.Eq(getColumnName(k), v) for the map entries in the order of iteration
EqAll(qq, entries) ==
    IF entries = <<>> THEN qq
    ELSE EqAll(Eq(qq, getColumnName(Head(entries)[1]), Head(entries)[2]), Tail(entries))

DeleteByMapOp(qq, p, env, order) == DeleteResult(qq, EqAll(qq, order), p, Write(env))

UpdateResult(qq, p, w) ==
    Result(qq, p,
           <<[Entry("Updates", qq, Where(NewStmt, ExprClause(qq.QueryBuilder, qq.QueryArgs)), <<>>)
                EXCEPT !.updates = qq.UpdateMap]>>,
           [NoRet EXCEPT !.err = w.err, !.rowsAffected = w.rowsAffected])

UpdateOp(qq, p, env) == UpdateResult(qq, p, Write(env))

\* the orders in which a map can be iterated
Orders(S) == {o \in SeqsUpTo(S, Cardinality(S)) :
                 Len(o) = Cardinality(S) /\ \A i, j \in DOMAIN o : i # j => o[i] # o[j]}

Apply(op, o) ==
    /\ q' = o.q
    /\ page' = o.page
    /\ log' = o.log
    /\ ret' = o.ret
    /\ Done(op)

\* ------------------------------------------------------ structural hints
OrderByAsc(qq, col) ==
    [qq EXCEPT !.OrderBuilder = @ \o Connector(@, ",") \o <<Lit(getColumnName(col)), Lit(" ASC")>>]

GroupBy(qq, col) ==
    [qq EXCEPT !.GroupBuilder = @ \o Connector(@, ",") \o <<Lit(getColumnName(col))>>]

Having(qq, col, v) ==
    [qq EXCEPT !.HavingBuilder = @ \o EqFragment(getColumnName(col), v),
               !.HavingArgs    = Append(@, v)]

Select(qq, col)   == [qq EXCEPT !.SelectColumns = Append(@, getColumnName(col))]
Distinct(qq, col) == [qq EXCEPT !.DistinctColumns = Append(@, getColumnName(col))]
Set(qq, col, v)   == [qq EXCEPT !.UpdateMap = @ \cup {<<getColumnName(col), v>>}]

ConditionEq(qq, k, v) ==
    [qq EXCEPT !.ConditionMap = {e \in @ : e[1] # k} \cup {<<k, v>>}]

\* ----------------------------------------------------------- fluent actions
RootCols == {"a"}
AndCols  == {"b"}
OrCols   == {"c"}
MapVals  == {"v2"}

\* log, ret and lastOp observe the last step when it was a dispatcher
\* operation; a fluent call is not one
Fluent(q2) == /\ q' = q2
              /\ log' = <<>>
              /\ ret' = NoRet
              /\ lastOp' = "none"
              /\ UNCHANGED <<page, pageKind, entityType, perIterVar, db, nOps>>

CanAddRoot == CountTerms(q.QueryBuilder) < MaxRootTerms

FEq == /\ CanAddRoot
       /\ \E col \in RootCols, v \in Vals : Fluent(Eq(q, col, v))

FIsNull == /\ CanAddRoot
           /\ \E col \in RootCols : Fluent(IsNull(q, col))

\* the term lists a bracket group is built from: one term, or two
GroupTerms(cols) ==
    UNION { { <<<<col, "v1">>>>, <<<<col, "v2">>>>, <<<<col, "v1">>, <<col, "v2">>>> } :
            col \in cols }

\* one AND-group and one OR-group per builder
FAnd == /\ q.AndBracketBuilder = <<>>
        /\ \E terms \in GroupTerms(AndCols) : Fluent(AndBracket(q, terms))

FOr == /\ q.OrBracketBuilder = <<>>
       /\ \E terms \in GroupTerms(OrCols) : Fluent(OrBracket(q, terms))

FConditionEq ==
    /\ Cardinality(q.ConditionMap) <= Cardinality(Keys)
    /\ \E k \in Keys, v \in MapVals : Fluent(ConditionEq(q, k, v))

\* ------------------------------------------------------- dispatcher actions
SelectCount == CanRun /\ Apply("SelectCount", SelectCountOp(q, page, db))
SelectOne   == CanRun /\ Apply("SelectOne", SelectOneOp(q, page, db))
Exists      == CanRun /\ Apply("Exists", ExistsOp(q, page, db))
SelectList  == CanRun /\ Apply("SelectList", SelectListOp(q, page, db, "Find"))

SelectListModel == CanRun /\ Apply("SelectListModel", SelectListOp(q, page, db, "Scan"))
SelectListByMap == CanRun /\ Apply("SelectListByMap", SelectListOp(q, page, db, "Find"))
SelectListMaps  == CanRun /\ Apply("SelectListMaps", SelectListOp(q, page, db, "Find"))

SelectPage ==
    CanRun /\ pageKind = "T" /\ Apply("SelectPage", SelectPageOp(q, page, db, "Find"))

SelectPageModel ==
    CanRun /\ pageKind = "R" /\ Apply("SelectPageModel", SelectPageOp(q, page, db, "Scan"))

SelectPageMaps ==
    CanRun /\ pageKind = "Map"
           /\ Apply("SelectPageMaps", SelectPageMapsOp(q, page, db, perIterVar))

Delete == CanRun /\ Apply("Delete", DeleteOp(q, page, db))

DeleteByMap ==
    /\ CanRun
    /\ \E order \in Orders(q.ConditionMap) :
           Apply("DeleteByMap", DeleteByMapOp(q, page, db, order))

Update == CanRun /\ Apply("Update", UpdateOp(q, page, db))

\* ------------------------------------------------- primary-key operations
Ids == "ids"

DeleteByIdResult(pk, id, p, w) ==
    Result(NewQuery, p,
           <<Entry("Delete", NewQuery, Where(NewStmt, ExprClause(<<Lit(pk)>>, <<id>>)), <<>>)>>,
           [NoRet EXCEPT !.err = w.err, !.rowsAffected = w.rowsAffected])

DeleteByIdOp(fields, id, p, env) ==
    DeleteByIdResult(getPkColumnName(fields), id, p, Write(env))

DeleteByIdsOp(fields, ids, p, env) ==
    DeleteOp(In(NewQuery, getPkColumnName(fields), ids), p, env)

\* SelectById calls buildCondition and First itself
SelectByIdOp(fields, id, p, env) ==
    SelectOneOp(Eq(NewQuery, getPkColumnName(fields), id), p, env)

SelectByIdsOp(fields, ids, p, env) ==
    SelectListOp(In(NewQuery, getPkColumnName(fields), ids), p, env, "Find")

\* these operations build their own Query; the caller's Query is untouched
ApplyPk(op, o) ==
    /\ log' = o.log
    /\ ret' = o.ret
    /\ UNCHANGED <<q, page>>
    /\ Done(op)

DeleteById  == CanRun /\ \E id \in Vals : ApplyPk("DeleteById", DeleteByIdOp(entityType, id, page, db))
DeleteByIds == CanRun /\ ApplyPk("DeleteByIds", DeleteByIdsOp(entityType, Ids, page, db))
SelectById  == CanRun /\ \E id \in Vals : ApplyPk("SelectById", SelectByIdOp(entityType, id, page, db))
SelectByIds == CanRun /\ ApplyPk("SelectByIds", SelectByIdsOp(entityType, Ids, page, db))

\* the store behind the executor changes between operations
EnvChange ==
    /\ \E env \in Envs : env # db /\ db' = env
    /\ log' = <<>>
    /\ ret' = NoRet
    /\ lastOp' = "none"
    /\ UNCHANGED <<q, page, pageKind, entityType, perIterVar, nOps>>

\* ---------------------------------------------------------- specifications
\* Spec: a caller builds one Query with fluent calls and runs operations on it
Init ==
    /\ q = Set(NewQuery, "a", "v1")
    /\ page = [NewPage(I64(2), I64(10)) EXCEPT !.Total = DefaultEnv.total,
                                               !.Records = DefaultEnv.rows]
    /\ pageKind = "T"
    /\ entityType = DefaultEntity
    /\ perIterVar = TRUE
    /\ db = DefaultEnv
    /\ log = <<>>
    /\ ret = NoRet
    /\ lastOp = "none"
    /\ nOps = 0

Next ==
    \/ FEq \/ FIsNull \/ FAnd \/ FOr \/ FConditionEq
    \/ SelectCount \/ SelectOne \/ SelectList \/ SelectPage
    \/ Delete \/ DeleteByMap \/ Update

Spec == Init /\ [][Next]_vars

\* SpecPage: page operations on Pages of every shape against a changing store
PageNumbers == {I64(-2), I64(-1), I64(0), I64(1), I64(3), HugePage}
PageSizes   == {I64(-5), I64(-1), I64(0), I64(1), I64(2)}

HintedQuery ==
    Distinct(Select(Having(GroupBy(OrderByAsc(Eq(NewQuery, "a", "v1"), "Age"), "Name"),
                           "a", "v2"), "Name"), "Name")

GroupedQuery == AndBracket(Eq(NewQuery, "a", "v1"), <<<<"b", "v2">>>>)

PageQueries == {NewQuery, HintedQuery, GroupedQuery}

InitPage ==
    /\ q \in PageQueries
    /\ page = NewPage(I64(2), I64(10))
    /\ pageKind \in {"T", "R", "Map"}
    /\ entityType = DefaultEntity
    /\ perIterVar \in BOOLEAN
    /\ (pageKind = "Map" \/ perIterVar)
    /\ db = DefaultEnv
    /\ log = <<>>
    /\ ret = NoRet
    /\ lastOp = "none"
    /\ nOps = 0

NextPage ==
    \/ SelectPage \/ SelectPageModel \/ SelectPageMaps
    \/ SelectListModel \/ SelectListByMap \/ SelectListMaps
    \/ Exists \/ EnvChange

SpecPage == InitPage /\ [][NextPage]_vars

\* SpecPaginate: one page operation on a Page of any shape
InitPaginate ==
    /\ q \in PageQueries
    /\ \E c \in PageNumbers, s \in PageSizes : page = NewPage(c, s)
    /\ pageKind \in {"T", "R", "Map"}
    /\ entityType = DefaultEntity
    /\ perIterVar = TRUE
    /\ db \in {e \in Envs : ~e.countErr /\ ~e.dataErr /\ e.total = 3}
    /\ log = <<>>
    /\ ret = NoRet
    /\ lastOp = "none"
    /\ nOps = 0

NextPaginate == SelectPage \/ SelectPageModel \/ SelectPageMaps

SpecPaginate == InitPaginate /\ [][NextPaginate]_vars

\* SpecPk: operations by primary key on record types of every shape
Fields      == [name : FieldNames, tag : FieldTags]
EntityTypes == SeqsUpTo(Fields, MaxFields)

InitPk ==
    /\ q = NewQuery
    /\ page = NewPage(I64(1), I64(10))
    /\ pageKind = "T"
    /\ entityType \in EntityTypes
    /\ perIterVar = TRUE
    /\ db = DefaultEnv
    /\ log = <<>>
    /\ ret = NoRet
    /\ lastOp = "none"
    /\ nOps = 0

NextPk == DeleteById \/ DeleteByIds \/ SelectById \/ SelectByIds

SpecPk == InitPk /\ [][NextPk]_vars

\* ------------------------------------------------------------------ claims
CompileCalls == {"Count", "First", "Find", "Scan"}
PageOps      == {"SelectPage", "SelectPageModel", "SelectPageMaps"}

\* the Where calls with a predicate text of the statement of a log entry
ExprWheres(e) == SelectSeq(e.stmt.wheres, LAMBDA w : w.text # <<>>)

\* sub occurs in s as a contiguous block
Contains(s, sub) ==
    \E i \in 0..(Len(s) - Len(sub)) : SubSeq(s, i + 1, i + Len(sub)) = sub

\* C1: in every statement issued by an operation that compiles the Query
\* (SelectOne, SelectList, SelectCount, SelectPage) and by DeleteByMap, the
\* predicate text has as many placeholders as there are arguments, and
\* argument i is the value that was appended together with placeholder i.
C1_PlaceholdersMatchArgs ==
    lastOp \in {"SelectOne", "SelectList", "SelectCount", "SelectPage", "DeleteByMap"} =>
        \A i \in DOMAIN log : \A j \in DOMAIN log[i].stmt.wheres :
            LET w == log[i].stmt.wheres[j]
            IN  PlaceholderVals(w.text) = w.args

\* a DeleteByMap on a Query that an earlier compile has extended by a group
C1_Witness ==
    /\ lastOp = "DeleteByMap"
    /\ nOps = 2
    /\ Len(log[1].stmt.wheres[1].args) >= 4
    /\ Contains(Text(log[1].stmt.wheres[1].text), <<"AND ", "(">>)
    /\ Contains(Text(log[1].stmt.wheres[1].text), <<"OR ", "(">>)

\* C2: when buildCondition is given a Query with a non-empty root predicate,
\* the first Where is the root text, then the AND-group text, then the
\* OR-group text, with the root, AND-group and OR-group arguments in that
\* order; the equality map, if any, is the second Where and there is no other.
C2_RootThenAndThenOr ==
    \A i \in DOMAIN log :
        LET e == log[i]
            g == e.given
        IN  (e.op \in CompileCalls /\ g.QueryBuilder # <<>>) =>
              /\ e.stmt.wheres[1] =
                     ExprClause(g.QueryBuilder \o g.AndBracketBuilder \o g.OrBracketBuilder,
                                g.QueryArgs \o g.AndBracketArgs \o g.OrBracketArgs)
              /\ IF g.ConditionMap = {} THEN Len(e.stmt.wheres) = 1
                 ELSE /\ Len(e.stmt.wheres) = 2
                      /\ e.stmt.wheres[2] =
                             MapClause({<<getColumnName(m[1]), m[2]>> : m \in g.ConditionMap})

\* a compile of a Query with a root term, both groups and an equality map
C2_Witness ==
    /\ lastOp = "SelectList"
    /\ log[1].given.QueryBuilder # <<>>
    /\ log[1].given.AndBracketArgs = <<"v1", "v2">>
    /\ log[1].given.OrBracketArgs = <<"v2">>
    /\ Cardinality(log[1].given.ConditionMap) = 2
    /\ Len(log[1].stmt.wheres) = 2
    /\ log[1].stmt.wheres[1].args = <<"v1", "v1", "v2", "v2">>

\* C3: a page operation issues the count query first; if the count fails the
\* Page is left exactly as it was passed, the count's error is returned and
\* no data query is issued.
C3_CountErrorShortCircuits ==
    [][(nOps' = nOps + 1 /\ lastOp' \in PageOps) =>
          /\ log'[1].op = "Count"
          /\ \A i \in 2..Len(log') : log'[i].op \in {"Find", "Scan"}
          /\ db.countErr =>
                /\ page' = page
                /\ Len(log') = 1
                /\ ret'.err = ErrExec]_vars

\* a failed count on a Page that holds the records of an earlier call
C3_Witness ==
    /\ lastOp \in PageOps
    /\ db.countErr
    /\ ret.err = ErrExec
    /\ Len(log) = 1
    /\ page.Records # <<>>
    /\ page.Total = 3

\* C4: within one SelectPage the data query gets the same predicate text and
\* arguments as the count query.
C4_CountAndDataSamePredicate ==
    (lastOp = "SelectPage" /\ Len(log) = 2) =>
        log[2].stmt.wheres = log[1].stmt.wheres

\* C5: a compile of a Query with a non-empty AND-group (OR-group) hands the
\* group's sub-clause text and its arguments to the executor, whatever the
\* root predicate is.
C5_GroupsAlwaysIncluded ==
    \A i \in DOMAIN log :
        LET e == log[i]
            g == e.given
        IN  e.op \in CompileCalls =>
              /\ g.AndBracketBuilder # <<>> =>
                     \E j \in DOMAIN e.stmt.wheres :
                         /\ Contains(e.stmt.wheres[j].text, g.AndBracketBuilder)
                         /\ Contains(e.stmt.wheres[j].args, g.AndBracketArgs)
              /\ g.OrBracketBuilder # <<>> =>
                     \E j \in DOMAIN e.stmt.wheres :
                         /\ Contains(e.stmt.wheres[j].text, g.OrBracketBuilder)
                         /\ Contains(e.stmt.wheres[j].args, g.OrBracketArgs)

\* C6: Delete and Update hand the executor the conditions that buildCondition
\* produces for the same Query.
C6_DeleteUpdateUseCompiledCondition ==
    lastOp \in {"Delete", "Update"} =>
        LET e == log[1]
            c == buildCondition(e.given).stmt
        IN  /\ ExprWheres(e) = SelectSeq(c.wheres, LAMBDA w : w.text # <<>>)
            /\ SelectSeq(e.stmt.wheres, LAMBDA w : w.cmap # {})
                  = SelectSeq(c.wheres, LAMBDA w : w.cmap # {})

\* C7: Exists on a predicate that matches no row returns false and no error,
\* unless the executor failed.
C7_ExistsNoMatchIsNotAnError ==
    (lastOp = "Exists" /\ ~db.dataErr /\ db.rows = <<>>) =>
        (ret.exists = FALSE /\ ret.err = NoError)

IsPos(x) == ~IsNeg(x) /\ x # I64(0)

\* a non-negative value below 2^16, as a number
IsSmall(x) == \A i \in 3..NLimbs : x[i] = 0
AsInt(x)   == x[1] + Base * x[2]

\* C8 as claimed: for every Page, offset is the product (c - 1) * s and
\* limit is s, with c = Current if Current > 0 else 1 and s = Size if
\* Size > 0 else 10; offset is never negative, limit is positive, and
\* Current and Size are not modified.
C8_OffsetIsProduct ==
    [][(nOps' = nOps + 1 /\ lastOp' \in PageOps) =>
          LET c   == IF IsPos(page.Current) THEN page.Current ELSE I64(1)
              s   == IF IsPos(page.Size) THEN page.Size ELSE I64(10)
              cm1 == Add64(c, I64(-1))
              st  == log'[Len(log')].stmt
          IN  /\ page'.Current = page.Current
              /\ page'.Size = page.Size
              /\ st.paged
              /\ st.limit = s
              /\ IsPos(st.limit)
              /\ ProductFits(cm1, s)
              /\ st.offset = Mul64(cm1, s)
              /\ ~IsNeg(st.offset)]_vars

\* C8 amended: offset is (c - 1) * s in 64-bit wrapping arithmetic, which is
\* the product, and not negative, whenever the product fits an int; limit is
\* s and positive; Current and Size are not modified.
C8_OffsetIsWrappedProduct ==
    [][(nOps' = nOps + 1 /\ lastOp' \in PageOps) =>
          LET c   == IF IsPos(page.Current) THEN page.Current ELSE I64(1)
              s   == IF IsPos(page.Size) THEN page.Size ELSE I64(10)
              cm1 == Add64(c, I64(-1))
              st  == log'[Len(log')].stmt
          IN  /\ page'.Current = page.Current
              /\ page'.Size = page.Size
              /\ st.paged
              /\ st.limit = s
              /\ IsPos(st.limit)
              /\ st.offset = Mul64(cm1, s)
              /\ ProductFits(cm1, s) => ~IsNeg(st.offset)
              /\ (IsSmall(cm1) /\ IsSmall(s)) => st.offset = I64(AsInt(cm1) * AsInt(s))]_vars

\* page 3 with the size defaulted to 10: offset 20, limit 10
C8_Witness ==
    /\ lastOp \in PageOps
    /\ page.Current = I64(3)
    /\ page.Size = I64(0)
    /\ Len(log) = 2
    /\ log[2].stmt.paged
    /\ log[2].stmt.offset = I64(20)
    /\ log[2].stmt.limit = I64(10)

PkOps == {"DeleteById", "DeleteByIds", "SelectById", "SelectByIds"}

\* the column the last primary-key operation filtered on
UsedPkColumn == log[1].stmt.wheres[1].text[1].s

MarkedFields == {i \in DOMAIN entityType : IsPrimaryKey(entityType[i])}

FirstMarked == CHOOSE i \in MarkedFields : \A j \in MarkedFields : i <= j

\* C9 as claimed: the primary-key column is that of the first marked field,
\* its COLUMN tag value verbatim if the tag is present, else the name derived
\* from the identifier; the default name if no field is marked.
C9_FirstMarkedFieldVerbatim ==
    lastOp \in PkOps =>
        UsedPkColumn =
            IF MarkedFields = {} THEN DefaultPrimaryName
            ELSE LET f == entityType[FirstMarked]
                 IN  IF HasSetting(f.tag, "COLUMN") THEN TagSetting(f.tag, "COLUMN")
                     ELSE ColumnName(f.name)

\* C9 amended: as claimed, except that a first marked field whose COLUMN tag
\* value is empty yields the default name.
C9_FirstMarkedFieldOrDefault ==
    lastOp \in PkOps =>
        UsedPkColumn =
            IF MarkedFields = {} THEN DefaultPrimaryName
            ELSE LET f == entityType[FirstMarked]
                 IN  IF HasSetting(f.tag, "COLUMN")
                     THEN (IF TagSetting(f.tag, "COLUMN") = "" THEN DefaultPrimaryName
                           ELSE TagSetting(f.tag, "COLUMN"))
                     ELSE ColumnName(f.name)

\* two marked fields: the first, without COLUMN tag, decides
C9_Witness ==
    /\ lastOp = "DeleteById"
    /\ Len(entityType) = 2
    /\ entityType[1] = [name |-> "UserName", tag |-> <<"primaryKey">>]
    /\ entityType[2] = [name |-> "ID", tag |-> <<"primary_key", "column:uid">>]
    /\ UsedPkColumn = "user_name"

\* C10: after a successful page operation Records is the sequence of rows the
\* data query returned and Total is the count.
C10_RecordsAreTheRowsReturned ==
    (lastOp \in PageOps /\ Len(log) = 2 /\ ret.err = NoError) =>
        /\ page.Records = log[2].out
        /\ page.Total = db.total

====
